---- MODULE Spec2Model ----
(***************************************************************************)
(* A model of fast-eci (src/main.py): checkSample, which compares a cheap  *)
(* inertial -> Earth-fixed conversion (one exact baseline transform plus a *)
(* rotation about the polar axis) with the exact conversion at a series of *)
(* test points, and main, which runs it at several reference epochs,       *)
(* pools the errors per offset and prints the report.                      *)
(*                                                                         *)
(* Numbers.  Times are whole ticks, TicksPerSec ticks to the second, so a  *)
(* float of seconds is a fixed-point number of ticks.  Vectors have        *)
(* integer coordinates and rotations are the quarter turns of the cube, so *)
(* that rotating is exact; WGS84_EARTH_ANGULAR_VELOCITY is one quarter     *)
(* turn per tick.  Distances are integer square roots.                     *)
(***************************************************************************)
EXTENDS Integers, Sequences, FiniteSets, TLC

\* ------------------------------------------------------------- bounds
MaxSamplePoints == 2      \* --sample-points ranges over 0..MaxSamplePoints
MaxStep == 2              \* --step, as ticks between epochs, over 1..MaxStep
MaxNumTests == 3          \* --tests-per-sample ranges over 0..MaxNumTests
MaxTestStep == 2          \* --test-step, in ticks, over -1..MaxTestStep
TicksPerSec == 2          \* resolution of an AbsoluteDate's offset
MaxClock == 3             \* the free wall clock reads 0..MaxClock

\* Constants.WGS84_EARTH_ANGULAR_VELOCITY, in quarter turns per tick
WGS84_EARTH_ANGULAR_VELOCITY == 1

\* ------------------------------------------------- vectors, rotations
Dot(a, b) == a[1] * b[1] + a[2] * b[2] + a[3] * b[3]

Add(a, b) == <<a[1] + b[1], a[2] + b[2], a[3] + b[3]>>

Sub(a, b) == <<a[1] - b[1], a[2] - b[2], a[3] - b[3]>>

Cross(a, b) ==
    << a[2] * b[3] - a[3] * b[2],
       a[3] * b[1] - a[1] * b[3],
       a[1] * b[2] - a[2] * b[1] >>

MatVec(m, v) == <<Dot(m[1], v), Dot(m[2], v), Dot(m[3], v)>>

MatMul(a, b) ==
    [r \in 1..3 |-> [c \in 1..3 |-> Dot(a[r], <<b[1][c], b[2][c], b[3][c]>>)]]

RECURSIVE SqrtSearch(_, _, _)
SqrtSearch(n, lo, hi) ==
    IF lo >= hi THEN lo
    ELSE LET mid == (lo + hi + 1) \div 2
         IN  IF mid * mid <= n THEN SqrtSearch(n, mid, hi)
             ELSE SqrtSearch(n, lo, mid - 1)

\* FastMath.sqrt, rounded down to a whole number (46340 squared is the
\* largest square of 32 bits)
Sqrt(n) == SqrtSearch(n, 0, IF n < 46340 THEN n ELSE 46340)

\* Vector3D.getNorm and Vector3D.distance
Norm(a) == Sqrt(Dot(a, a))

Distance(a, b) == Norm(Sub(a, b))

\* FastMath.toDegrees(Vector3D.angle(a, b)), to the nearest of 0, 45, 90,
\* 135, 180 degrees; Vector3D.angle raises on a vector of norm zero.
AngleDefined(a, b) == Dot(a, a) # 0 /\ Dot(b, b) # 0

AngleDegrees(a, b) ==
    LET d == Dot(a, b)
        parallel == Cross(a, b) = <<0, 0, 0>>
    IN  IF d = 0 THEN 90
        ELSE IF d > 0 THEN (IF parallel THEN 0 ELSE 45)
        ELSE (IF parallel THEN 180 ELSE 135)

Cos4(q) == CASE q % 4 = 0 -> 1 [] q % 4 = 1 -> 0 [] q % 4 = 2 -> -1 [] OTHER -> 0

Sin4(q) == CASE q % 4 = 0 -> 0 [] q % 4 = 1 -> 1 [] q % 4 = 2 -> 0 [] OTHER -> -1

\* Rotation(Vector3D.PLUS_K, angle, convention), angle in quarter turns:
\* the matrix that Rotation.applyTo multiplies a vector by.
RotationK(q, convention) ==
    IF convention = "FRAME_TRANSFORM"
    THEN << <<Cos4(q), Sin4(q), 0>>, <<0 - Sin4(q), Cos4(q), 0>>, <<0, 0, 1>> >>
    ELSE << <<Cos4(q), 0 - Sin4(q), 0>>, <<Sin4(q), Cos4(q), 0>>, <<0, 0, 1>> >>

\* a quarter turn of the frame about the first axis
TiltI == << <<1, 0, 0>>, <<0, 0, 1>>, <<0, -1, 0>> >>

\* Transform.IDENTITY
IDENTITY == [rot |-> RotationK(0, "FRAME_TRANSFORM"), rate |-> 0]

\* Transform(date, rotation): a rotation with no rotation rate
RotationTransform(rotation) == [rot |-> rotation, rate |-> 0]

\* Transform.transformPVCoordinates: p' = R p, v' = R v - Omega x p',
\* with Omega = (0, 0, rate)
transformPVCoordinates(tx, pv) ==
    LET p == MatVec(tx.rot, pv.p)
    IN  [p |-> p,
         v |-> Sub(MatVec(tx.rot, pv.v), Cross(<<0, 0, tx.rate>>, p))]

\* ------------------------------------------------------------- dates
\* AbsoluteDate: whole seconds and an offset of 0..TicksPerSec-1 ticks
\* the TLE's epoch
TleDate == [epoch |-> 0, offset |-> 1]

\* AbsoluteDate.shiftedBy(dt)
shiftedBy(d, dt) ==
    LET sum == d.offset + dt
    IN  [epoch |-> d.epoch + (sum \div TicksPerSec), offset |-> sum % TicksPerSec]

\* AbsoluteDate.durationFrom(other)
durationFrom(d, other) ==
    (d.epoch - other.epoch) * TicksPerSec + (d.offset - other.offset)

\* ticks since the TLE's epoch
Ticks(d) == durationFrom(d, TleDate)

\* ------------------------------------------------------ collaborators
\* The exact-frame provider, inertialFrame.getTransformTo(ecef, date):
\* "identity" never turns; "spin" turns about the polar axis at the WGS84
\* rate; "tilting" also tips its polar axis over every other second.
FrameKinds == {"identity", "spin", "tilting"}

ExactTransform(kind, d) ==
    LET t == Ticks(d)
        spin == RotationK(t * WGS84_EARTH_ANGULAR_VELOCITY, "FRAME_TRANSFORM")
    IN  CASE kind = "identity" -> IDENTITY
          [] kind = "spin" ->
                [rot |-> spin, rate |-> WGS84_EARTH_ANGULAR_VELOCITY]
          [] OTHER ->
                [rot |-> IF (t \div TicksPerSec) % 2 = 1
                         THEN MatMul(spin, TiltI) ELSE spin,
                 rate |-> WGS84_EARTH_ANGULAR_VELOCITY]

\* The orbit state provider: a constant-velocity path in the inertial
\* frame.  A "consistent" provider's Earth-fixed state is the exact
\* transform of its inertial state; a "biased" one is off by one unit.
\* The last path is at rest in a spinning frame two ticks after the TLE's
\* epoch.
Orbits ==
    { [p0 |-> <<-2, 0, 0>>, v0 |-> <<1, 0, 0>>],
      [p0 |-> <<1, 2, 0>>, v0 |-> <<0, 1, 1>>],
      [p0 |-> <<1, -2, 1>>, v0 |-> <<0, 1, 0>>] }

ProviderKinds == {"consistent", "biased"}

\* pvProv.getPVCoordinates(point, inertialFrame)
InertialPV(orbit, d) ==
    LET t == Ticks(d)
    IN  [p |-> Add(orbit.p0, <<t * orbit.v0[1], t * orbit.v0[2], t * orbit.v0[3]>>),
         v |-> orbit.v0]

\* pvProv.getPVCoordinates(point, ecef)
FixedPV(provider, frame, orbit, d) ==
    LET x == transformPVCoordinates(ExactTransform(frame, d), InertialPV(orbit, d))
    IN  IF provider = "consistent" THEN x
        ELSE [p |-> Add(x.p, <<0, 0, 1>>), v |-> x.v]

\* ----------------------------------------------------------- the state
VARIABLES
    frameKind, provKind, orbit, freeClock,       \* the collaborators
    sample_points, step, numTests, testStep,     \* the command line
    pc, failure, now,                            \* position, exception, clock
    epochIdx, date, results, estimateTime, actualTime, stdout,   \* main
    baseline, i, point, inertialPv, fixedPv, deltaTime, fixedTx, \* checkSample
    estimatedFixedPv, actualFixedPv,
    eStart, eStop, aStart, aStop, estTime, actTime, data,
    trace,        \* history: the timing events of the current test point
    emitted,      \* history: every SampleResult checkSample has returned
    negWindow     \* history: some timing window read stop < start

world == <<frameKind, provKind, orbit, freeClock>>
args == <<sample_points, step, numTests, testStep>>
mainVars == <<epochIdx, date, results, estimateTime, actualTime, stdout>>
pointVars == <<point, inertialPv, fixedPv, deltaTime>>
txVars == <<fixedTx, estimatedFixedPv, actualFixedPv>>
clockVars == <<now, eStart, eStop, aStart, aStop, estTime, actTime, negWindow>>
vars == <<world, args, mainVars, pointVars, txVars, clockVars,
          pc, failure, baseline, i, data, trace, emitted>>

NoPV == [p |-> <<0, 0, 0>>, v |-> <<0, 0, 0>>]

InitWith(frames, providers, orbits, clocks, points, steps, tests, testSteps) ==
    /\ frameKind \in frames
    /\ provKind \in providers
    /\ orbit \in orbits
    /\ freeClock \in clocks
    /\ sample_points \in points
    /\ step \in steps
    /\ numTests \in tests
    /\ testStep \in testSteps
    /\ pc = "main"
    /\ failure = "none"
    /\ now = 0
    /\ epochIdx = 0
    /\ date = TleDate
    /\ results = <<>>
    /\ estimateTime = 0
    /\ actualTime = 0
    /\ stdout = <<>>
    /\ baseline = IDENTITY
    /\ i = 0
    /\ point = TleDate
    /\ inertialPv = NoPV
    /\ fixedPv = NoPV
    /\ deltaTime = 0
    /\ fixedTx = IDENTITY
    /\ estimatedFixedPv = NoPV
    /\ actualFixedPv = NoPV
    /\ eStart = 0
    /\ eStop = 0
    /\ aStart = 0
    /\ aStop = 0
    /\ estTime = 0
    /\ actTime = 0
    /\ data = <<>>
    /\ trace = <<>>
    /\ emitted = <<>>
    /\ negWindow = FALSE

\* Every collaborator and command line, with a clock that advances by one
\* between readings.
Init ==
    InitWith(FrameKinds, ProviderKinds, Orbits, {FALSE},
             0..MaxSamplePoints, 1..MaxStep, 0..MaxNumTests, (-1)..MaxTestStep)

\* One collaborator, with a clock free to stand still or step back.
InitTiming ==
    InitWith({"spin"}, {"consistent"}, {[p0 |-> <<1, 2, 0>>, v0 |-> <<0, 1, 1>>]},
             {TRUE}, 0..2, {1}, 0..2, {1})

\* ------------------------------------------------------- checkSample
\* a slip: the baseline taken once, at the TLE's epoch, for every sample
BaselineAtTle(frame, d) == ExactTransform(frame, TleDate)

\* line 69: the baseline transform, at the reference epoch
Baseline(frame, d) == ExactTransform(frame, d)

\* a slip: range(1, numTests + 1)
TestPointFromOne(d, k, stepTicks) == shiftedBy(d, (k + 1) * stepTicks)

\* line 72: the i-th test point
TestPoint(d, k, stepTicks) == shiftedBy(d, k * stepTicks)

\* line 84
DeltaTime(pt, d) == durationFrom(pt, d)

\* a slip: the guard on deltaTime dropped
EstimateTxAlways(dt, current) ==
    RotationTransform(
        RotationK(dt * WGS84_EARTH_ANGULAR_VELOCITY, "FRAME_TRANSFORM"))

\* lines 86-88: the incremental rotation replaces fixedTx when deltaTime > 0
EstimateTx(dt, current) ==
    IF dt > 0
    THEN RotationTransform(
             RotationK(dt * WGS84_EARTH_ANGULAR_VELOCITY, "FRAME_TRANSFORM"))
    ELSE current

\* a slip: the two transforms applied in the other order
EstimateSwapped(base, tx, pv) ==
    transformPVCoordinates(base, transformPVCoordinates(tx, pv))

\* lines 90-91: the baseline first, then fixedTx
Estimate(base, tx, pv) ==
    transformPVCoordinates(tx, transformPVCoordinates(base, pv))

\* line 99
Actual(tx, pv) == transformPVCoordinates(tx, pv)

\* lines 104-106 and 122-127
SampleResult(dt, truth, est) ==
    [deltaTime |-> dt,
     posError |-> Distance(truth.p, est.p),
     velMagError |-> Distance(truth.v, est.v),
     velAngError |-> AngleDegrees(truth.v, est.v)]

\* a slip: = for +=
AccumulateOverwrite(total, start, stop) == stop - start

\* lines 94 and 102: total += stop - start
Accumulate(total, start, stop) == total + (stop - start)

\* time.time(): the next reading of the wall clock
Readings(n) ==
    IF freeClock THEN {r \in {n - 1, n, n + 1} : r >= 0 /\ r <= MaxClock}
    ELSE {n + 1}

\* a slip: the exact path timed inside the estimated path's window
AfterStepNested(s) ==
    CASE s = "eStart" -> "approx"
      [] s = "approx" -> "aStart"
      [] s = "aStart" -> "exact"
      [] s = "exact" -> "aStop"
      [] s = "aStop" -> "eStop"
      [] s = "eStop" -> "errors"
      [] OTHER -> "loop"

\* the order of the statements of the loop body, lines 85-102
AfterStep(s) ==
    CASE s = "eStart" -> "approx"
      [] s = "approx" -> "eStop"
      [] s = "eStop" -> "aStart"
      [] s = "aStart" -> "exact"
      [] s = "exact" -> "aStop"
      [] s = "aStop" -> "errors"
      [] OTHER -> "loop"

\* a slip: the failing sample skipped, the loop going on (try/continue)
OnFailureSkip(kind) == [pc |-> "loop", failure |-> kind]

\* an exception nobody catches: it leaves checkSample and main
OnFailure(kind) == [pc |-> "aborted", failure |-> kind]

Raise(kind) ==
    /\ pc' = OnFailure(kind).pc
    /\ failure' = OnFailure(kind).failure

\* lines 178, 188-189 and 64-76: main takes the next epoch and calls
\* checkSample, which computes the baseline and clears its totals
CallCheckSample ==
    /\ pc = "main"
    /\ epochIdx < sample_points
    /\ epochIdx' = epochIdx + 1
    /\ date' = shiftedBy(TleDate, epochIdx * step)
    /\ \E ok \in BOOLEAN :
          IF ok
          THEN /\ baseline' = Baseline(frameKind, date')
               /\ estTime' = 0
               /\ actTime' = 0
               /\ data' = <<>>
               /\ i' = 0
               /\ pc' = "loop"
               /\ UNCHANGED failure
          ELSE /\ Raise("provider")
               /\ UNCHANGED <<baseline, estTime, actTime, data, i>>
    /\ trace' = <<>>
    /\ UNCHANGED <<world, args, results, estimateTime, actualTime, stdout,
                   pointVars, txVars, now, eStart, eStop, aStart, aStop,
                   negWindow, emitted>>

\* lines 77-84: the next test point and the satellite's state there
FetchPv ==
    /\ pc = "loop"
    /\ i < numTests
    /\ i' = i + 1
    /\ point' = TestPoint(date, i, testStep)
    /\ \E ok \in BOOLEAN :
          IF ok
          THEN /\ inertialPv' = InertialPV(orbit, point')
               /\ fixedPv' = FixedPV(provKind, frameKind, orbit, point')
               /\ fixedTx' = IDENTITY
               /\ deltaTime' = DeltaTime(point', date)
               /\ trace' = <<>>
               /\ pc' = "eStart"
               /\ UNCHANGED failure
          ELSE /\ Raise("provider")
               /\ UNCHANGED <<inertialPv, fixedPv, fixedTx, deltaTime, trace>>
    /\ UNCHANGED <<world, args, mainVars, estimatedFixedPv, actualFixedPv,
                   clockVars, baseline, data, emitted>>

\* line 85
EStart ==
    /\ pc = "eStart"
    /\ \E r \in Readings(now) : now' = r /\ eStart' = r
    /\ trace' = Append(trace, "eStart")
    /\ pc' = AfterStep("eStart")
    /\ UNCHANGED <<world, args, mainVars, pointVars, txVars, eStop, aStart, aStop,
                   estTime, actTime, negWindow, failure, baseline, i, data, emitted>>

\* lines 86-91
Approx ==
    /\ pc = "approx"
    /\ fixedTx' = EstimateTx(deltaTime, fixedTx)
    /\ estimatedFixedPv' = Estimate(baseline, fixedTx', inertialPv)
    /\ trace' = Append(trace, "approx")
    /\ pc' = AfterStep("approx")
    /\ UNCHANGED <<world, args, mainVars, pointVars, actualFixedPv, clockVars,
                   failure, baseline, i, data, emitted>>

\* lines 92-94
EStop ==
    /\ pc = "eStop"
    /\ \E r \in Readings(now) : now' = r /\ eStop' = r
    /\ estTime' = Accumulate(estTime, eStart, eStop')
    /\ negWindow' = (negWindow \/ eStop' < eStart)
    /\ trace' = Append(trace, "eStop")
    /\ pc' = AfterStep("eStop")
    /\ UNCHANGED <<world, args, mainVars, pointVars, txVars, eStart, aStart, aStop,
                   actTime, failure, baseline, i, data, emitted>>

\* line 97
AStart ==
    /\ pc = "aStart"
    /\ \E r \in Readings(now) : now' = r /\ aStart' = r
    /\ trace' = Append(trace, "aStart")
    /\ pc' = AfterStep("aStart")
    /\ UNCHANGED <<world, args, mainVars, pointVars, txVars, eStart, eStop, aStop,
                   estTime, actTime, negWindow, failure, baseline, i, data, emitted>>

\* lines 98-99
Exact ==
    /\ pc = "exact"
    /\ trace' = Append(trace, "exact")
    /\ \E ok \in BOOLEAN :
          IF ok
          THEN /\ actualFixedPv' = Actual(ExactTransform(frameKind, point), inertialPv)
               /\ pc' = AfterStep("exact")
               /\ UNCHANGED failure
          ELSE /\ Raise("provider")
               /\ UNCHANGED actualFixedPv
    /\ UNCHANGED <<world, args, mainVars, pointVars, fixedTx, estimatedFixedPv,
                   clockVars, baseline, i, data, emitted>>

\* lines 100-102
AStop ==
    /\ pc = "aStop"
    /\ \E r \in Readings(now) : now' = r /\ aStop' = r
    /\ actTime' = Accumulate(actTime, aStart, aStop')
    /\ negWindow' = (negWindow \/ aStop' < aStart)
    /\ trace' = Append(trace, "aStop")
    /\ pc' = AfterStep("aStop")
    /\ UNCHANGED <<world, args, mainVars, pointVars, txVars, eStart, eStop, aStart,
                   estTime, failure, baseline, i, data, emitted>>

\* lines 104-127: Vector3D.angle raises on a velocity of norm zero
Errors ==
    /\ pc = "errors"
    /\ IF AngleDefined(fixedPv.v, estimatedFixedPv.v)
       THEN /\ data' = Append(data, SampleResult(deltaTime, fixedPv, estimatedFixedPv))
            /\ pc' = AfterStep("errors")
            /\ UNCHANGED failure
       ELSE /\ Raise("MathRuntimeException")
            /\ UNCHANGED data
    /\ UNCHANGED <<world, args, mainVars, pointVars, txVars, clockVars,
                   baseline, i, trace, emitted>>

\* --------------------------------------------------------------- main
Abs(x) == IF x < 0 THEN 0 - x ELSE x

\* a slip: the key taken from the whole seconds, str(int(deltaTime))
StrTruncated(dt) == << IF dt < 0 THEN "-" ELSE "", Abs(dt) \div TicksPerSec, 0 >>

\* str(d['deltaTime']): the sign, the whole seconds and the first decimal
Str(dt) ==
    << IF dt < 0 THEN "-" ELSE "",
       Abs(dt) \div TicksPerSec,
       ((Abs(dt) % TicksPerSec) * 10) \div TicksPerSec >>

\* the position of key in the dict, 0 when it is not in it
RECURSIVE IndexOf(_, _, _)
IndexOf(res, key, k) ==
    IF k > Len(res) THEN 0
    ELSE IF res[k].key = key THEN k
    ELSE IndexOf(res, key, k + 1)

\* lines 199-210: one SampleResult into its bucket; a new key goes last
AddSample(res, d) ==
    LET key == Str(d.deltaTime)
        at == IndexOf(res, key, 1)
    IN  IF at = 0
        THEN Append(res, [key |-> key,
                          deltaTime |-> d.deltaTime,
                          posError |-> <<d.posError>>,
                          velMagError |-> <<d.velMagError>>,
                          velAngError |-> <<d.velAngError>>])
        ELSE [res EXCEPT ![at].posError = Append(@, d.posError),
                         ![at].velMagError = Append(@, d.velMagError),
                         ![at].velAngError = Append(@, d.velAngError)]

\* lines 198-210: for d in data
RECURSIVE Aggregate(_, _)
Aggregate(res, ds) ==
    IF ds = <<>> THEN res
    ELSE Aggregate(AddSample(res, Head(ds)), Tail(ds))

RECURSIVE Sum(_)
Sum(s) == IF s = <<>> THEN 0 ELSE Head(s) + Sum(Tail(s))

RECURSIVE SumSq(_)
SumSq(s) == IF s = <<>> THEN 0 ELSE Head(s) * Head(s) + SumSq(Tail(s))

\* DescriptiveStatistics.getMean, in tenths
getMean(s) == (10 * Sum(s)) \div Len(s)

\* DescriptiveStatistics.getStandardDeviation, in tenths: the square root
\* of the sample variance, and 0 for a single value
getStandardDeviation(s) ==
    LET n == Len(s)
    IN  IF n = 1 THEN 0
        ELSE Sqrt((100 * (n * SumSq(s) - Sum(s) * Sum(s))) \div (n * (n - 1)))

\* lines 213-216: the block printed for one bucket
Block(r) ==
    [line |-> "Delta time",
     deltaTime |-> r.deltaTime,
     posErr |-> <<getMean(r.posError), getStandardDeviation(r.posError)>>,
     velErr |-> <<getMean(r.velMagError), getStandardDeviation(r.velMagError)>>,
     velAng |-> <<getMean(r.velAngError), getStandardDeviation(r.velAngError)>>]

\* lines 129 and 195-210: checkSample returns; main adds the two times to
\* its totals and pools the samples
Return ==
    /\ pc = "loop"
    /\ i >= numTests
    /\ estimateTime' = estimateTime + estTime
    /\ actualTime' = actualTime + actTime
    /\ results' = Aggregate(results, data)
    /\ emitted' = emitted \o data
    /\ pc' = "main"
    /\ UNCHANGED <<world, args, epochIdx, date, stdout, pointVars, txVars,
                   clockVars, failure, baseline, i, data, trace>>

\* lines 212-221: results.values(), in the dict's insertion order, then the
\* two totals
PrintStats ==
    /\ pc = "main"
    /\ epochIdx >= sample_points
    /\ stdout' = [k \in 1..Len(results) |-> Block(results[k])]
                    \o << [line |-> "Total time",
                           actual |-> actualTime,
                           estimated |-> estimateTime] >>
    /\ pc' = "percent"
    /\ UNCHANGED <<world, args, epochIdx, date, results, estimateTime, actualTime,
                   pointVars, txVars, clockVars, failure, baseline, i, data,
                   trace, emitted>>

\* a / b rounded down, for b # 0
Quotient(a, b) == IF b > 0 THEN a \div b ELSE (0 - a) \div (0 - b)

\* line 222: the division raises ZeroDivisionError when actualTime is 0
PrintPercent ==
    /\ pc = "percent"
    /\ IF actualTime = 0
       THEN /\ Raise("ZeroDivisionError")
            /\ UNCHANGED stdout
       ELSE /\ stdout' = Append(stdout,
                   [line |-> "Percent improvement",
                    percent |-> Quotient(100 * (actualTime - estimateTime), actualTime)])
            /\ pc' = "done"
            /\ UNCHANGED failure
    /\ UNCHANGED <<world, args, epochIdx, date, results, estimateTime, actualTime,
                   pointVars, txVars, clockVars, baseline, i, data, trace, emitted>>

Next ==
    \/ CallCheckSample
    \/ FetchPv
    \/ EStart
    \/ Approx
    \/ EStop
    \/ AStart
    \/ Exact
    \/ AStop
    \/ Errors
    \/ Return
    \/ PrintStats
    \/ PrintPercent

Spec == Init /\ [][Next]_vars

SpecTiming == InitTiming /\ [][Next]_vars

\* ------------------------------------------------------------- claims
\* the approximate transform has been applied at the current test point
ApproxDone == \E k \in 1..Len(trace) : trace[k] = "approx"

\* a rotation about the polar axis by q quarter turns, applied to a state
PolarRotation(q, pv) ==
    [p |-> MatVec(RotationK(q, "FRAME_TRANSFORM"), pv.p),
     v |-> MatVec(RotationK(q, "FRAME_TRANSFORM"), pv.v)]

\* the exact transform at the reference epoch, applied to the inertial state
BaselineState == transformPVCoordinates(ExactTransform(frameKind, date), inertialPv)

ZeroError(r) == r.posError = 0 /\ r.velMagError = 0 /\ r.velAngError = 0

\* C1: at every test point the estimated Earth-fixed state is the baseline
\* transform of the inertial state when deltaTime <= 0, and that state
\* turned about the polar axis by deltaTime * omega when deltaTime > 0.
C1_Estimate ==
    ApproxDone =>
        estimatedFixedPv =
            IF deltaTime <= 0 THEN BaselineState
            ELSE PolarRotation(deltaTime * WGS84_EARTH_ANGULAR_VELOCITY, BaselineState)

\* a test point after the epoch, of a tilted frame, where the rotation moved
\* the state
C1_Witness ==
    /\ ApproxDone
    /\ frameKind = "tilting"
    /\ deltaTime > 0
    /\ epochIdx > 1
    /\ estimatedFixedPv # BaselineState

\* C2: a SampleResult at deltaTime = 0 has three errors of 0, when the
\* provider's Earth-fixed state is the exact transform of its inertial one.
C2_ZeroOffset ==
    provKind = "consistent" =>
        \A k \in 1..Len(data) : data[k].deltaTime = 0 => ZeroError(data[k])

\* a later epoch whose sample at 0 is exact while a later one is not
C2_Witness ==
    /\ provKind = "consistent"
    /\ epochIdx > 1
    /\ \E k \in 1..Len(data) : data[k].deltaTime = 0 /\ ZeroError(data[k])
    /\ \E k \in 1..Len(data) : data[k].posError > 0

IdentityScenario == frameKind = "identity" /\ provKind = "consistent"

\* C3 as stated: with an identity frame provider the estimate is the
\* ground truth at every offset, and every error is 0.
C3_Original ==
    IdentityScenario =>
        /\ \A k \in 1..Len(data) : ZeroError(data[k])
        /\ ApproxDone => estimatedFixedPv = fixedPv

\* C3 as amended: with an identity frame provider the estimate is the
\* ground truth at the offsets deltaTime <= 0, with errors of 0; at
\* deltaTime > 0 it is the ground truth turned about the polar axis by
\* deltaTime * omega.
C3_Amended ==
    IdentityScenario =>
        /\ \A k \in 1..Len(data) : data[k].deltaTime <= 0 => ZeroError(data[k])
        /\ ApproxDone =>
              estimatedFixedPv =
                  IF deltaTime <= 0 THEN fixedPv
                  ELSE PolarRotation(deltaTime * WGS84_EARTH_ANGULAR_VELOCITY, fixedPv)

\* an identity frame, and a sample after the epoch with a position error
C3_Witness ==
    /\ IdentityScenario
    /\ \E k \in 1..Len(data) : data[k].deltaTime > 0 /\ data[k].posError > 0
    /\ \E k \in 1..Len(data) : data[k].deltaTime <= 0 /\ ZeroError(data[k])

\* how many of the indices k of s satisfy s[k] = v
Count(s, v) == Cardinality({k \in 1..Len(s) : s[k] = v})

\* the emitted samples of offset dt that have the value v in the field f
EmittedCount(dt, f, v) ==
    Cardinality({k \in 1..Len(emitted) :
                    emitted[k].deltaTime = dt /\ emitted[k][f] = v})

\* the values of the bucket are exactly those emitted at its offset
SameSamples(b, f) ==
    /\ \A k \in 1..Len(b[f]) : Count(b[f], b[f][k]) = EmittedCount(b.deltaTime, f, b[f][k])
    /\ Len(b[f]) = Cardinality({k \in 1..Len(emitted) : emitted[k].deltaTime = b.deltaTime})

\* s with the values at j and k exchanged
Swapped(s, j, k) == [s EXCEPT ![j] = s[k], ![k] = s[j]]

\* the statistics of s are those of s in another order: any order for up to
\* four values, any exchange of two values for more
OrderIndependent(s) ==
    /\ \A j, k \in 1..Len(s) :
          /\ getMean(Swapped(s, j, k)) = getMean(s)
          /\ getStandardDeviation(Swapped(s, j, k)) = getStandardDeviation(s)
    /\ Len(s) <= 4 =>
          \A perm \in Permutations(1..Len(s)) :
              LET t == [k \in 1..Len(s) |-> s[perm[k]]]
              IN  /\ getMean(t) = getMean(s)
                  /\ getStandardDeviation(t) = getStandardDeviation(s)

\* C4: once main has pooled the samples of an epoch (and so of all of
\* them), the statistics of each deltaTime bucket are over exactly the
\* samples emitted with that deltaTime, every emitted sample is in one
\* bucket, the mean and standard deviation do not depend on the order of
\* the samples, and position errors of 2 and 4 have the mean 3.0.
C4_Buckets ==
    pc = "main" =>
        /\ \A k \in 1..Len(results) :
              /\ SameSamples(results[k], "posError")
              /\ SameSamples(results[k], "velMagError")
              /\ SameSamples(results[k], "velAngError")
              /\ OrderIndependent(results[k].posError)
              /\ OrderIndependent(results[k].velMagError)
              /\ OrderIndependent(results[k].velAngError)
              /\ (Len(results[k].posError) = 2 /\ Sum(results[k].posError) = 6)
                    => getMean(results[k].posError) = 30
              /\ \A j \in 1..Len(results) :
                    results[j].deltaTime = results[k].deltaTime => j = k
        /\ \A k \in 1..Len(emitted) :
              \E j \in 1..Len(results) : results[j].deltaTime = emitted[k].deltaTime

\* two epochs have been pooled: the bucket of one offset holds the position
\* errors 2 and 4, beside a bucket of another offset
C4_Witness ==
    /\ pc = "main"
    /\ epochIdx >= sample_points
    /\ Len(results) >= 2
    /\ \E k \in 1..Len(results) :
          /\ results[k].posError \in {<<2, 4>>, <<4, 2>>}
          /\ getMean(results[k].posError) = 30

\* the lines of the report that open a per-offset block
Blocks == {k \in 1..Len(stdout) : stdout[k].line = "Delta time"}

\* C5: when the exact-path total is 0 at the end of the run, the run ends
\* without an error and its last line reports the percent improvement (as
\* undefined).
C5_UndefinedReported ==
    (actualTime = 0 /\ failure \notin {"provider", "MathRuntimeException"}
        /\ pc \in {"done", "aborted"})
    => /\ pc = "done"
       /\ failure = "none"
       /\ stdout[Len(stdout)].line = "Percent improvement"

\* C6: the per-offset blocks of the report are in strictly ascending
\* deltaTime order.
C6_Ascending ==
    \A j, k \in Blocks : j < k => stdout[j].deltaTime < stdout[k].deltaTime

\* C7: a failure of the state or frame provider ends the run there: nothing
\* is evaluated after it and no statistics or timing report is printed.
C7_Abort ==
    [][ /\ failure = "provider" => UNCHANGED vars
        /\ failure' = "provider" => (pc' = "aborted" /\ stdout' = <<>>) ]_vars

\* a provider fails in the second epoch, after samples have been taken
C7_Witness ==
    /\ failure = "provider"
    /\ epochIdx > 1
    /\ emitted # <<>>
    /\ data # <<>>
    /\ stdout = <<>>

\* C8 as stated: the totals are never negative, and each is strictly
\* greater after a sample than before it.
C8_Original ==
    [][ /\ pc = "eStop" => estTime' > estTime
        /\ pc = "aStop" => actTime' > actTime
        /\ estTime' >= 0 /\ actTime' >= 0
        /\ estimateTime' >= 0 /\ actualTime' >= 0 ]_vars

\* C8 as amended: a sample adds to each total its window's stop reading
\* less its start reading and nothing else changes the totals, so that
\* the totals are never negative and never decrease as long as no window
\* has read a stop below its start.
C8_Amended ==
    [][ /\ pc = "eStop" => estTime' - estTime = eStop' - eStart
        /\ pc = "aStop" => actTime' - actTime = aStop' - aStart
        /\ (pc # "eStop" /\ pc' # "loop") => estTime' = estTime
        /\ (pc # "aStop" /\ pc' # "loop") => actTime' = actTime
        /\ (pc = "loop" /\ pc' = "main")
              => /\ estimateTime' = estimateTime + estTime
                 /\ actualTime' = actualTime + actTime
        /\ ~(pc = "loop" /\ pc' = "main")
              => /\ estimateTime' = estimateTime
                 /\ actualTime' = actualTime
        /\ ~negWindow'
              => /\ estTime' >= 0 /\ actTime' >= 0
                 /\ estimateTime' >= 0 /\ actualTime' >= 0
                 /\ pc \in {"eStop", "aStop"}
                       => (estTime' >= estTime /\ actTime' >= actTime) ]_vars

\* a second sample whose estimated-path window read the same value twice,
\* which left the total of the first sample as it was
C8_Witness ==
    /\ pc = "aStart"
    /\ Len(data) >= 1
    /\ eStop = eStart
    /\ estTime > 0
    /\ ~negWindow

\* C9: checkSample's results are, in order, one per i in [0, numTests),
\* with deltaTime = i * testStep.
C9_Offsets ==
    /\ Len(data) <= numTests
    /\ \A k \in 1..Len(data) : data[k].deltaTime = (k - 1) * testStep
    /\ pc \in {"main", "percent", "done"} =>
          /\ Len(emitted) = epochIdx * numTests
          /\ \A k \in 1..Len(emitted) :
                emitted[k].deltaTime = ((k - 1) % numTests) * testStep

\* the second epoch has returned its samples, at negative offsets
C9_Witness ==
    /\ pc = "main"
    /\ epochIdx > 1
    /\ testStep < 0
    /\ numTests > 1
    /\ Len(data) = numTests

\* a timing window is open between its start event and its stop event
Opened(start, stop) ==
    Cardinality({k \in 1..Len(trace) : trace[k] = start})
        > Cardinality({k \in 1..Len(trace) : trace[k] = stop})

EstOpen == Opened("eStart", "eStop")

ActOpen == Opened("aStart", "aStop")

\* C10: the two timing windows never overlap or nest; the approximate
\* transform runs in the estimated-path window alone and the exact transform
\* in the exact-path window alone; a test point's events are the estimated
\* window, closed, and then the exact window.
C10_Windows ==
    /\ ~(EstOpen /\ ActOpen)
    /\ pc = "approx" => (EstOpen /\ ~ActOpen)
    /\ pc = "exact" => (ActOpen /\ ~EstOpen)
    /\ pc = "aStart" => (~EstOpen /\ \E k \in 1..Len(trace) : trace[k] = "eStop")
    /\ pc \in {"loop", "main", "percent", "done", "errors", "eStart"}
          => (~EstOpen /\ ~ActOpen)
    /\ pc = "errors" =>
          trace = <<"eStart", "approx", "eStop", "aStart", "exact", "aStop">>

\* the exact transform is being computed, in its window, after an earlier
\* sample of the same epoch
C10_Witness ==
    /\ pc = "exact"
    /\ ActOpen
    /\ trace = <<"eStart", "approx", "eStop", "aStart">>
    /\ data # <<>>

====
